---- MODULE Spec2Model ----
(***************************************************************************)
(* Model of ml/targets/create-targets.py: the team-name canonicalizer, the *)
(* league resolver, the pairwise history index, the causal head-to-head    *)
(* aggregator, the merge stage and the derived targets of main(); and of   *)
(* prepare_features in ml/models/train-markets.py and evaluate-offline.py. *)
(*                                                                         *)
(* Strings are sequences of one-character strings, so that strip, lower,   *)
(* replace, split and join are computed the way the code computes them.    *)
(* A timestamp is a number of ticks; a calendar date is a day number.      *)
(***************************************************************************)
EXTENDS Integers, Sequences, FiniteSets, TLC

VARIABLES
    \* ---- main(): the batch pipeline
    pc,            \* position of main()
    raw_read,      \* the raw match table as read_csv returned it (line 238)
    raw,           \* the raw match table (after read_csv, then filtered and extended)
    features,      \* the feature table
    pair_map,      \* pair key -> list of H2HMatch
    merged,        \* the merged table
    h2h_overall,   \* list of overall snapshots, one per merged row
    h2h_venue,     \* list of venue snapshots, one per merged row
    selected_overall, \* the matches behind each overall snapshot
    selected_venue,   \* the matches behind each venue snapshot
    targets,       \* the derived-target columns of merged, one record per row
    written,       \* TRUE once merged.to_csv has run
    printed,       \* what main() has printed
    error,         \* the exception that ended the run, or None
    \* ---- compute_h2h_stats called on its own
    h2h_pc,
    matches,
    current_home,
    current_away,
    current_date,
    max_matches,
    overall_stats,
    venue_stats,
    overall_selected,
    venue_selected,
    \* ---- normalize_team_name called on its own
    name_pc,
    raw_name,
    other_name,
    once,
    twice,
    other_once,
    \* ---- the derived targets of one merged row
    derive_pc,
    merged_row,
    row_targets,
    \* ---- prepare_features of the training and of the evaluation stage
    feat_pc,
    df,            \* the table read from the targets file: its rows and dtypes
    market_key,    \* the market being trained and evaluated
    train_X,       \* the feature columns of train-markets.py
    eval_X,        \* the feature columns of evaluate-offline.py
    \* ---- build_pair_key behind the index and the lookup
    key_pc,
    h2h_source,    \* the rows indexed
    fixture,       \* the fixture looked up
    key_map,       \* pair key -> list of matches
    key_matches    \* the history found for the fixture

pipeVars == <<pc, raw_read, raw, features, pair_map, merged, targets, h2h_overall,
              h2h_venue, selected_overall, selected_venue, written, printed, error>>
h2hVars  == <<h2h_pc, matches, current_home, current_away, current_date, max_matches,
              overall_stats, venue_stats, overall_selected, venue_selected>>
nameVars == <<name_pc, raw_name, other_name, once, twice, other_once>>
deriveVars == <<derive_pc, merged_row, row_targets>>
featVars == <<feat_pc, df, market_key, train_X, eval_X>>
keyVars  == <<key_pc, h2h_source, fixture, key_map, key_matches>>
otherVars == <<deriveVars, featVars, keyVars>>
vars     == <<pipeVars, h2hVars, nameVars, otherVars>>

\* None or NaN in a numeric column; every number of the program is >= 0
None == -1
\* None in a percentage or average column, which holds fractions
NoneStat == [num |-> 0, den |-> 0]
\* no exception
NoError == "none"
\* None in a column of labels
NoLabel == "None"

(***************************************************************************)
(* Bounds of the model.                                                    *)
(***************************************************************************)
MaxNameLen == 3      \* longest raw team name given to the canonicalizer
MaxHist    == 3      \* longest pair history given to compute_h2h_stats
MaxWindow  == 2      \* largest max_matches given to compute_h2h_stats
MaxDate    == 2      \* last date of a match of such a history
MaxRaw     == 2      \* most rows of the raw match table
MaxFeat    == 1      \* most rows of the feature table
MaxGoals   == 3      \* most goals of one team in a row given to the derived targets

(***************************************************************************)
(* Static tables of the module (lines 10-77).                              *)
(***************************************************************************)
LEAGUE_NAME_MAP ==
    <<"p", "r", "e", "m", "i", "e", "r", " ", "l", "e", "a", "g", "u", "e">> :> 39
    @@ <<"e", "n", "g", "l", "i", "s", "h", " ", "p", "r", "e", "m", "i", "e", "r", " ", "l", "e", "a", "g", "u", "e">> :> 39
    @@ <<"e", "p", "l">> :> 39
    @@ <<"e", "0">> :> 39
    @@ <<"l", "a", " ", "l", "i", "g", "a">> :> 140
    @@ <<"s", "p", "a", "n", "i", "s", "h", " ", "l", "a", " ", "l", "i", "g", "a">> :> 140
    @@ <<"p", "r", "i", "m", "e", "r", "a", " ", "d", "i", "v", "i", "s", "i", "o", "n">> :> 140
    @@ <<"p", "r", "i", "m", "e", "r", "a", " ", "d", "i", "v", "i", "s", "i", "ó", "n">> :> 140
    @@ <<"s", "p", "1">> :> 140
    @@ <<"s", "e", "r", "i", "e", " ", "a">> :> 135
    @@ <<"i", "t", "a", "l", "i", "a", "n", " ", "s", "e", "r", "i", "e", " ", "a">> :> 135
    @@ <<"i", "1">> :> 135
    @@ <<"b", "u", "n", "d", "e", "s", "l", "i", "g", "a">> :> 78
    @@ <<"g", "e", "r", "m", "a", "n", " ", "b", "u", "n", "d", "e", "s", "l", "i", "g", "a">> :> 78
    @@ <<"d", "1">> :> 78
    @@ <<"l", "i", "g", "u", "e", " ", "1">> :> 61
    @@ <<"f", "r", "e", "n", "c", "h", " ", "l", "i", "g", "u", "e", " ", "1">> :> 61
    @@ <<"f", "1">> :> 61
    @@ <<"p", "r", "i", "m", "e", "i", "r", "a", " ", "l", "i", "g", "a">> :> 94
    @@ <<"l", "i", "g", "a", " ", "p", "o", "r", "t", "u", "g", "a", "l">> :> 94
    @@ <<"p", "o", "r", "t", "u", "g", "u", "e", "s", "e", " ", "l", "e", "a", "g", "u", "e">> :> 94
    @@ <<"p", "1">> :> 94
    @@ <<"e", "r", "e", "d", "i", "v", "i", "s", "i", "e">> :> 88
    @@ <<"d", "u", "t", "c", "h", " ", "e", "r", "e", "d", "i", "v", "i", "s", "i", "e">> :> 88
    @@ <<"n", "1">> :> 88

STOP_WORDS ==
    { <<"a", "c">>,
      <<"a", "f", "c">>,
      <<"a", "l">>,
      <<"c", "d">>,
      <<"c", "f">>,
      <<"d", "e">>,
      <<"f", "c">>,
      <<"s", "c">>,
      <<"s", "s">>,
      <<"t", "h", "e">>,
      <<"u", "d">> }

REPLACEMENTS ==
    "á" :> "a"
    @@ "à" :> "a"
    @@ "â" :> "a"
    @@ "ã" :> "a"
    @@ "ä" :> "a"
    @@ "é" :> "e"
    @@ "è" :> "e"
    @@ "ê" :> "e"
    @@ "ë" :> "e"
    @@ "í" :> "i"
    @@ "ì" :> "i"
    @@ "î" :> "i"
    @@ "ï" :> "i"
    @@ "ó" :> "o"
    @@ "ò" :> "o"
    @@ "ô" :> "o"
    @@ "õ" :> "o"
    @@ "ö" :> "o"
    @@ "ú" :> "u"
    @@ "ù" :> "u"
    @@ "û" :> "u"
    @@ "ü" :> "u"
    @@ "ç" :> "c"
    @@ "ñ" :> "n"

(***************************************************************************)
(* Python's str methods on the characters the model uses.                  *)
(***************************************************************************)
\* str.lower(), one character at a time
UPPER_TO_LOWER ==
    "A" :> "a" @@ "Ã" :> "ã" @@ "Å" :> "å" @@ "C" :> "c" @@ "Ç" :> "ç"
    @@ "E" :> "e"

CharLower(ch) == IF ch \in DOMAIN UPPER_TO_LOWER THEN UPPER_TO_LOWER[ch] ELSE ch

\* str.isspace() and str.isalnum(): every character of the model that is
\* neither whitespace nor punctuation is a letter or a digit
WHITESPACE  == {" "}
PUNCTUATION == {"-", "_", "."}

IsSpace(ch) == ch \in WHITESPACE
IsAlnum(ch) == ch \notin WHITESPACE \cup PUNCTUATION

\* code points, the order sorted() puts strings in
CODE_POINT ==
    " " :> 32 @@ "-" :> 45 @@ "." :> 46 @@ "A" :> 65 @@ "C" :> 67 @@ "_" :> 95
    @@ "a" :> 97 @@ "b" :> 98 @@ "c" :> 99 @@ "Ã" :> 195 @@ "Å" :> 197 @@ "Ç" :> 199
    @@ "ã" :> 227 @@ "å" :> 229 @@ "ç" :> 231

Lower(s) == [i \in 1..Len(s) |-> CharLower(s[i])]

RECURSIVE LStrip(_)
LStrip(s) == IF s # <<>> /\ IsSpace(Head(s)) THEN LStrip(Tail(s)) ELSE s

RECURSIVE RStrip(_)
RStrip(s) ==
    IF s # <<>> /\ IsSpace(s[Len(s)]) THEN RStrip(SubSeq(s, 1, Len(s) - 1)) ELSE s

Strip(s) == RStrip(LStrip(s))

\* str.split(): the maximal runs of non-whitespace characters
RECURSIVE SplitFrom(_, _, _)
SplitFrom(s, cur, acc) ==
    IF s = <<>>
    THEN IF cur = <<>> THEN acc ELSE Append(acc, cur)
    ELSE IF IsSpace(Head(s))
         THEN SplitFrom(Tail(s), <<>>, IF cur = <<>> THEN acc ELSE Append(acc, cur))
         ELSE SplitFrom(Tail(s), Append(cur, Head(s)), acc)

Split(s) == SplitFrom(s, <<>>, <<>>)

\* sep.join(parts)
RECURSIVE Join(_, _)
Join(sep, parts) ==
    IF parts = <<>> THEN <<>>
    ELSE IF Len(parts) = 1 THEN parts[1]
    ELSE parts[1] \o sep \o Join(sep, Tail(parts))

RECURSIVE SelectParts(_)
SelectParts(parts) ==
    IF parts = <<>> THEN <<>>
    ELSE IF Head(parts) # <<>> /\ Head(parts) \notin STOP_WORDS
         THEN <<Head(parts)>> \o SelectParts(Tail(parts))
         ELSE SelectParts(Tail(parts))

(***************************************************************************)
(* normalize_team_name (lines 80-86).                                      *)
(***************************************************************************)
ReplaceChar(ch) == IF ch \in DOMAIN REPLACEMENTS THEN REPLACEMENTS[ch] ELSE ch

Sanitize(ch) == IF IsAlnum(ch) \/ IsSpace(ch) THEN ch ELSE " "

\* a variant: the stop words dropped before the accents are folded
normalize_stop_words_first(s) ==
    LET value1 == Lower(Strip(s))
        value3 == [i \in 1..Len(value1) |-> Sanitize(value1[i])]
        joined == Strip(Join(<<" ">>, SelectParts(Split(value3))))
    IN  [i \in 1..Len(joined) |-> ReplaceChar(joined[i])]

normalize_team_name(s) ==
    LET value1 == Lower(Strip(s))
        value2 == [i \in 1..Len(value1) |-> ReplaceChar(value1[i])]
        value3 == [i \in 1..Len(value2) |-> Sanitize(value2[i])]
        parts  == SelectParts(Split(value3))
    IN  Strip(Join(<<" ">>, parts))

(***************************************************************************)
(* resolve_league_id (lines 89-91).                                        *)
(***************************************************************************)
resolve_league_id(s) ==
    LET key == Lower(Strip(s))
    IN  IF key \in DOMAIN LEAGUE_NAME_MAP THEN LEAGUE_NAME_MAP[key] ELSE None

(***************************************************************************)
(* build_pair_key (lines 103-104): "__".join(sorted([home, away])).        *)
(***************************************************************************)
\* s < t in Python's string order (code point by code point, prefix first)
RECURSIVE StrLess(_, _)
StrLess(s, t) ==
    IF t = <<>> THEN FALSE
    ELSE IF s = <<>> THEN TRUE
    ELSE IF CODE_POINT[Head(s)] < CODE_POINT[Head(t)] THEN TRUE
    ELSE IF CODE_POINT[Head(s)] > CODE_POINT[Head(t)] THEN FALSE
    ELSE StrLess(Tail(s), Tail(t))

build_pair_key(home_team, away_team) ==
    IF StrLess(away_team, home_team)
    THEN away_team \o <<"_", "_">> \o home_team
    ELSE home_team \o <<"_", "_">> \o away_team

(***************************************************************************)
(* compute_h2h_stats (lines 107-200).                                      *)
(***************************************************************************)
H2HMatch(date, home_team, away_team, home_goals, away_goals) ==
    [date |-> date, home_team |-> home_team, away_team |-> away_team,
     home_goals |-> home_goals, away_goals |-> away_goals]

\* a variant: bisect_right, which also passes over the entries equal to x
RECURSIVE BisectLoopRight(_, _, _, _)
BisectLoopRight(a, x, lo, hi) ==
    IF lo < hi
    THEN LET mid == (lo + hi) \div 2
         IN  IF a[mid + 1] <= x
             THEN BisectLoopRight(a, x, mid + 1, hi)
             ELSE BisectLoopRight(a, x, lo, mid)
    ELSE lo

\* bisect.bisect_left(a, x): lo and hi are Python's 0-based indices
RECURSIVE BisectLoop(_, _, _, _)
BisectLoop(a, x, lo, hi) ==
    IF lo < hi
    THEN LET mid == (lo + hi) \div 2
         IN  IF a[mid + 1] < x
             THEN BisectLoop(a, x, mid + 1, hi)
             ELSE BisectLoop(a, x, lo, mid)
    ELSE lo

bisect_left(a, x) == BisectLoop(a, x, 0, Len(a))

\* a variant: the first entries instead of the last ones, s[:-start]
SliceFromHead(s, start) ==
    LET n == Len(s)
        k == IF 0 - start > n THEN n ELSE 0 - start
    IN  SubSeq(s, 1, k)

\* s[start:] with Python's rule for a negative or too large start
SliceFrom(s, start) ==
    LET n    == Len(s)
        from == IF start < 0
                THEN (IF n + start < 0 THEN 0 ELSE n + start)
                ELSE (IF start > n THEN n ELSE start)
    IN  SubSeq(s, from + 1, n)

Reversed(s) == [i \in 1..Len(s) |-> s[Len(s) + 1 - i]]

\* a variant: the venue loop breaking one match late
RECURSIVE VenueLoopLateBreak(_, _, _, _, _, _)
VenueLoopLateBreak(ms, idx, home, away, limit, selected) ==
    IF idx < 0 THEN selected
    ELSE LET match == ms[idx + 1]
         IN  IF match.home_team = home /\ match.away_team = away
             THEN LET sel == Append(selected, match)
                  IN  IF Len(sel) > limit
                      THEN sel
                      ELSE VenueLoopLateBreak(ms, idx - 1, home, away, limit, sel)
             ELSE VenueLoopLateBreak(ms, idx - 1, home, away, limit, selected)

\* the venue loop (lines 140-146): idx runs from cutoff - 1 down to 0
RECURSIVE VenueLoop(_, _, _, _, _, _)
VenueLoop(ms, idx, home, away, limit, selected) ==
    IF idx < 0 THEN selected
    ELSE LET match == ms[idx + 1]
         IN  IF match.home_team = home /\ match.away_team = away
             THEN LET sel == Append(selected, match)
                  IN  IF Len(sel) >= limit
                      THEN sel
                      ELSE VenueLoop(ms, idx - 1, home, away, limit, sel)
             ELSE VenueLoop(ms, idx - 1, home, away, limit, selected)

\* the local variable `selected` (lines 115-149); the early returns of
\* lines 115 and 128 select nothing
h2h_selected(ms, home, away, date, limit, venue_only) ==
    IF ms = <<>> THEN <<>>
    ELSE LET dates  == [i \in 1..Len(ms) |-> ms[i].date]
             cutoff == bisect_left(dates, date)
         IN  IF cutoff <= 0 THEN <<>>
             ELSE IF venue_only
                  THEN Reversed(VenueLoop(ms, cutoff - 1, home, away, limit, <<>>))
                  ELSE SliceFrom(SubSeq(ms, 1, cutoff), 0 - limit)

\* a variant: zeros instead of None
EMPTY_STATS_Zero ==
    [matches |-> 0, home_win_pct |-> [num |-> 0, den |-> 1],
     away_win_pct |-> [num |-> 0, den |-> 1], draw_pct |-> [num |-> 0, den |-> 1],
     avg_goals |-> [num |-> 0, den |-> 1], btts_pct |-> [num |-> 0, den |-> 1],
     over_2_5_pct |-> [num |-> 0, den |-> 1]]

EMPTY_STATS ==
    [matches |-> 0, home_win_pct |-> NoneStat, away_win_pct |-> NoneStat,
     draw_pct |-> NoneStat, avg_goals |-> NoneStat, btts_pct |-> NoneStat,
     over_2_5_pct |-> NoneStat]

RECURSIVE Gcd(_, _)
Gcd(a, b) == IF b = 0 THEN a ELSE Gcd(b, a % b)

\* the quotient n / d as a fraction in lowest terms
Quotient(n, d) ==
    LET g == Gcd(n, d) IN [num |-> n \div g, den |-> d \div g]

\* a variant: the goals of the historical home side, never swapped
OrientedHomeUnswapped(match, home) == match.home_goals

\* lines 170-175: goals seen from the current home team
OrientedHome(match, home) ==
    IF match.home_team = home THEN match.home_goals ELSE match.away_goals
OrientedAway(match, home) ==
    IF match.home_team = home THEN match.away_goals ELSE match.home_goals

RECURSIVE SumGoals(_)
SumGoals(selected) ==
    IF selected = <<>> THEN 0
    ELSE Head(selected).home_goals + Head(selected).away_goals + SumGoals(Tail(selected))

\* lines 162-200
Aggregate(selected, home) ==
    LET idxs      == 1..Len(selected)
        hg(i)     == OrientedHome(selected[i], home)
        ag(i)     == OrientedAway(selected[i], home)
        home_wins == Cardinality({i \in idxs : hg(i) > ag(i)})
        away_wins == Cardinality({i \in idxs : ~(hg(i) > ag(i)) /\ ag(i) > hg(i)})
        draws     == Cardinality({i \in idxs : ~(hg(i) > ag(i)) /\ ~(ag(i) > hg(i))})
        btts      == Cardinality({i \in idxs : hg(i) > 0 /\ ag(i) > 0})
        over_2_5  == Cardinality({i \in idxs : 2 * (hg(i) + ag(i)) > 5})
        count     == Len(selected)
    IN  [matches      |-> count,
         home_win_pct |-> Quotient(home_wins * 100, count),
         away_win_pct |-> Quotient(away_wins * 100, count),
         draw_pct     |-> Quotient(draws * 100, count),
         avg_goals    |-> Quotient(SumGoals(selected), count),
         btts_pct     |-> Quotient(btts * 100, count),
         over_2_5_pct |-> Quotient(over_2_5 * 100, count)]

compute_h2h_stats(ms, home, away, date, limit, venue_only) ==
    LET selected == h2h_selected(ms, home, away, date, limit, venue_only)
    IN  IF selected = <<>> THEN EMPTY_STATS ELSE Aggregate(selected, home)

(***************************************************************************)
(* main() (lines 230-430): the batch pipeline.                             *)
(***************************************************************************)
TicksPerDay == 2     \* timestamps of one calendar day

\* a variant: the last timestamp of that day
ToDatetimeEndOfDay(day) == day * TicksPerDay + TicksPerDay - 1

\* pd.to_datetime of a date string: midnight of that day
ToDatetime(day) == day * TicksPerDay
\* Series.dt.date.astype(str): the calendar day of a timestamp
DateOf(ts) == ts \div TicksPerDay

\* pd.to_numeric(errors="coerce") of the text of a cell
DIGITS == "0" :> 0 @@ "1" :> 1 @@ "2" :> 2 @@ "3" :> 3 @@ "4" :> 4
          @@ "5" :> 5 @@ "6" :> 6 @@ "7" :> 7 @@ "8" :> 8 @@ "9" :> 9

RECURSIVE ParseDigits(_, _)
ParseDigits(cell, acc) ==
    IF cell = <<>> THEN acc
    ELSE ParseDigits(Tail(cell), 10 * acc + DIGITS[Head(cell)])

ToNumeric(cell) ==
    IF cell # <<>> /\ \A i \in 1..Len(cell) : cell[i] \in DOMAIN DIGITS
    THEN ParseDigits(cell, 0)
    ELSE None

\* team-name-map.json, "mappings": normalized name -> canonical team
mappings == <<"a">> :> <<"A">>

TeamA == <<"A">>
TeamB == <<"b">>

\* the result columns of a raw row, as read from the CSV
RawResults ==
    { [FTHome |-> <<"2">>, FTAway |-> <<"1">>, HTHome |-> <<"1">>, HTAway |-> <<"0">>,
       HomeCorners |-> <<"5">>, AwayCorners |-> <<"3">>, HomeYellow |-> <<"2">>,
       AwayYellow |-> <<"1">>, HomeRed |-> <<"0">>, AwayRed |-> <<"0">>],
      [FTHome |-> <<"-">>, FTAway |-> <<"0">>, HTHome |-> <<>>, HTAway |-> <<>>,
       HomeCorners |-> <<>>, AwayCorners |-> <<>>, HomeYellow |-> <<>>,
       AwayYellow |-> <<>>, HomeRed |-> <<>>, AwayRed |-> <<>>] }

\* the second raw spelling of TeamA is mapped to it by the team map
RawTeams == { <<TeamA, TeamB>>, <<TeamB, <<"ã">> >> }

\* day 1 after midnight, day 2 at midnight, day 2 after midnight
Stamp(day, tick) == day * TicksPerDay + tick
RawStamps == { Stamp(1, 1), Stamp(2, 0), Stamp(2, 1) }

\* the rows of a league the alias table knows: played matches, and a match
\* without its full-time goals; and one row of an unknown league
RawRows ==
    { [MatchDate |-> ts, Division |-> <<"E", "0">>, HomeTeam |-> tm[1],
       AwayTeam |-> tm[2], results |-> rs] :
        ts \in RawStamps, tm \in RawTeams, rs \in { r \in RawResults : r.FTHome = <<"2">> } }
    \cup
    { [MatchDate |-> Stamp(1, 1), Division |-> <<"E", "0">>, HomeTeam |-> TeamB,
       AwayTeam |-> <<"ã">>, results |-> rs] :
        rs \in { r \in RawResults : r.FTHome = <<"-">> } }
    \cup
    { [MatchDate |-> Stamp(1, 1), Division |-> <<"z", "z">>, HomeTeam |-> TeamA,
       AwayTeam |-> TeamB, results |-> rs] :
        rs \in { r \in RawResults : r.FTHome = <<"2">> } }

FeatureDates == {1, 2}

FeatureRows ==
    { [date |-> d, leagueId |-> 39, homeTeam |-> tm[1], awayTeam |-> tm[2],
       homeGoals |-> 2, awayGoals |-> 1] :
        d \in FeatureDates, tm \in { <<TeamA, TeamB>>, <<TeamB, TeamA>> } }

SeqsUpTo(S, n) == UNION { [1..k -> S] : k \in 0..n }

\* lines 243-244
WithLeague(row) == [Division |-> row.Division, MatchDate |-> row.MatchDate,
                    HomeTeam |-> row.HomeTeam, AwayTeam |-> row.AwayTeam,
                    results |-> row.results,
                    leagueId |-> resolve_league_id(row.Division)]
\* a variant: a filter that keeps every row
LeagueResolvedAll(row) == TRUE

LeagueResolved(row) == row.leagueId # None

\* lines 246-249: Series.map(mappings).fillna(raw name)
CanonicalTeam(name) ==
    LET norm == normalize_team_name(name)
    IN  IF norm \in DOMAIN mappings THEN mappings[norm] ELSE name

\* lines 246-266
Canonical(row) ==
    [leagueId |-> row.leagueId,
     homeTeam |-> CanonicalTeam(row.HomeTeam),
     awayTeam |-> CanonicalTeam(row.AwayTeam),
     date     |-> row.MatchDate,
     results  |-> [c \in DOMAIN row.results |-> ToNumeric(row.results[c])]]

\* lines 268-270: dropna on date, homeTeam, awayTeam, FTHome, FTAway
H2HSourceRow(row) == row.results.FTHome # None /\ row.results.FTAway # None

\* lines 272-284
RECURSIVE IndexRows(_, _)
IndexRows(rows, pm) ==
    IF rows = <<>> THEN pm
    ELSE LET row   == Head(rows)
             key   == build_pair_key(row.homeTeam, row.awayTeam)
             match == H2HMatch(row.date, row.homeTeam, row.awayTeam,
                               row.results.FTHome, row.results.FTAway)
             old   == IF key \in DOMAIN pm THEN pm[key] ELSE <<>>
             rest  == [k \in DOMAIN pm \ {key} |-> pm[k]]
         IN  IndexRows(Tail(rows), rest @@ (key :> Append(old, match)))

\* a variant: a sort that puts a match before the earlier ones of its date
RECURSIVE InsertByDateUnstable(_, _)
InsertByDateUnstable(sorted, m) ==
    IF sorted = <<>> THEN <<m>>
    ELSE IF sorted[Len(sorted)].date < m.date THEN Append(sorted, m)
    ELSE Append(InsertByDateUnstable(SubSeq(sorted, 1, Len(sorted) - 1), m),
                sorted[Len(sorted)])

\* list.sort(key=lambda m: m.date): stable
RECURSIVE InsertByDate(_, _)
InsertByDate(sorted, m) ==
    IF sorted = <<>> THEN <<m>>
    ELSE IF sorted[Len(sorted)].date <= m.date THEN Append(sorted, m)
    ELSE Append(InsertByDate(SubSeq(sorted, 1, Len(sorted) - 1), m), sorted[Len(sorted)])

RECURSIVE SortByDate(_)
SortByDate(ms) ==
    IF ms = <<>> THEN <<>>
    ELSE InsertByDate(SortByDate(SubSeq(ms, 1, Len(ms) - 1)), ms[Len(ms)])

\* lines 289-305: the right-hand table of the merge
Outcome(row) == [date |-> DateOf(row.date), leagueId |-> row.leagueId,
                 homeTeam |-> row.homeTeam, awayTeam |-> row.awayTeam,
                 results |-> row.results]

MergeKey(row) == <<row.date, row.leagueId, row.homeTeam, row.awayTeam>>

\* a variant: a merge that validates nothing
RightUniqueUnchecked(right) == TRUE

\* validate="many_to_one": the merge keys of the right-hand table are unique
RightUnique(right) ==
    \A i, j \in 1..Len(right) : MergeKey(right[i]) = MergeKey(right[j]) => i = j

OUTCOME_COLUMNS == {"HTHome", "HTAway", "HomeCorners", "AwayCorners", "HomeYellow",
                    "AwayYellow", "HomeRed", "AwayRed"}

\* how="left": every feature row, with the columns of its outcome row or nulls
MergeRow(frow, right) ==
    LET hits == {i \in 1..Len(right) : MergeKey(right[i]) = MergeKey(frow)}
    IN  [date |-> frow.date, leagueId |-> frow.leagueId,
         homeTeam |-> frow.homeTeam, awayTeam |-> frow.awayTeam,
         homeGoals |-> frow.homeGoals, awayGoals |-> frow.awayGoals,
         outcome |-> IF hits = {}
                     THEN [c \in OUTCOME_COLUMNS |-> None]
                     ELSE [c \in OUTCOME_COLUMNS |->
                              right[CHOOSE i \in hits : TRUE].results[c]]]

(***************************************************************************)
(* The derived targets (lines 314-375).  A column name is a string.        *)
(***************************************************************************)
\* a variant: an addition that takes NaN as 0
AddSkipNa(a, b) == (IF a = None THEN 0 ELSE a) + (IF b = None THEN 0 ELSE b)

\* a + b on float columns: NaN when either side is NaN
Add(a, b) == IF a = None \/ b = None THEN None ELSE a + b
\* a - b on float columns
Sub(a, b) == IF a = None \/ b = None THEN None ELSE a - b
\* a > b: a comparison with NaN is False
Greater(a, b) == a # None /\ b # None /\ a > b
\* Series.between(low, high, inclusive="both"): False for NaN
Between(x, low, high) == x # None /\ low <= x /\ x <= high
\* .astype("int") of a boolean
AsInt(b) == IF b THEN 1 ELSE 0

\* line 319: the lines 0.5, 1.5, ..., 5.5, each as twice its value
OU_LINES == <<1, 3, 5, 7, 9, 11>>
\* line 320: f"ou_over_{str(line).replace('.', '_')}"
OUColumn(line2) == "ou_over_" \o ToString(line2 \div 2) \o "_5"
\* a variant: at least the line rounded down
OverLineRounded(totalGoals, line2) == totalGoals # None /\ totalGoals >= line2 \div 2

\* line 321: totalGoals > line
OverLine(totalGoals, line2) == totalGoals # None /\ 2 * totalGoals > line2
\* lines 319-321: the loop over the lines, from the i-th line on
RECURSIVE OverColumnsFrom(_, _)
OverColumnsFrom(totalGoals, i) ==
    IF i > Len(OU_LINES) THEN [c \in {} |-> 0]
    ELSE (OUColumn(OU_LINES[i]) :> AsInt(OverLine(totalGoals, OU_LINES[i])))
         @@ OverColumnsFrom(totalGoals, i + 1)
OverColumns(totalGoals) == OverColumnsFrom(totalGoals, 1)

\* lines 323-339
total_ranges == <<<<1, 2>>, <<1, 3>>, <<1, 4>>, <<1, 5>>, <<1, 6>>, <<2, 3>>, <<2, 4>>,
                  <<2, 5>>, <<2, 6>>, <<3, 4>>, <<3, 5>>, <<3, 6>>, <<4, 5>>, <<4, 6>>,
                  <<5, 6>>>>
\* lines 341, 345, 348: f"{prefix}{low}_{high}"
RangeColumn(prefix, range) == prefix \o ToString(range[1]) \o "_" \o ToString(range[2])
\* lines 340-350: the loop over the ranges, from the i-th range on, for the
\* columns of one prefix, computed from one goal count
RECURSIVE RangeColumnsFrom(_, _, _)
RangeColumnsFrom(prefix, goals, i) ==
    IF i > Len(total_ranges) THEN [c \in {} |-> 0]
    ELSE (RangeColumn(prefix, total_ranges[i])
             :> AsInt(Between(goals, total_ranges[i][1], total_ranges[i][2])))
         @@ RangeColumnsFrom(prefix, goals, i + 1)
RangeColumns(prefix, goals) == RangeColumnsFrom(prefix, goals, 1)

\* lines 358-365
half_result(row) ==
    IF row.HTHome = None \/ row.HTAway = None THEN NoLabel
    ELSE IF row.HTHome > row.HTAway THEN "HOME"
    ELSE IF row.HTHome < row.HTAway THEN "AWAY"
    ELSE "DRAW"

\* lines 314-375: the columns added to one merged row
DeriveTargets(row) ==
    LET homeGoals      == row.homeGoals
        awayGoals      == row.awayGoals
        out            == row.outcome
        totalGoals     == Add(homeGoals, awayGoals)
        fh_goals_total == Add(out.HTHome, out.HTAway)
        home_cards     == Add(out.HomeYellow, out.HomeRed)
        away_cards     == Add(out.AwayYellow, out.AwayRed)
    IN  ("totalGoals" :> totalGoals)
        @@ ("btts_yes" :> AsInt(Greater(homeGoals, 0) /\ Greater(awayGoals, 0)))
        @@ OverColumns(totalGoals)
        @@ RangeColumns("total_range_", totalGoals)
        @@ RangeColumns("home_range_", homeGoals)
        @@ RangeColumns("away_range_", awayGoals)
        @@ ("clean_sheet_home" :> AsInt(awayGoals = 0))
        @@ ("clean_sheet_away" :> AsInt(homeGoals = 0))
        @@ ("fh_goals_total" :> fh_goals_total)
        @@ ("sh_goals_total" :> Sub(totalGoals, fh_goals_total))
        @@ ("fh_result" :> half_result(out))
        @@ ("home_cards" :> home_cards)
        @@ ("away_cards" :> away_cards)
        @@ ("total_cards" :> Add(home_cards, away_cards))
        @@ ("home_corners" :> out.HomeCorners)
        @@ ("away_corners" :> out.AwayCorners)
        @@ ("total_corners" :> Add(out.HomeCorners, out.AwayCorners))

\* lines 424-428: Series.notna().sum()
NotNaCount(rows, column) == Cardinality({i \in 1..Len(rows) : rows[i][column] # None})
COVERAGE_COLUMNS == {"fh_goals_total", "total_cards", "total_corners"}

\* the window main() asks for (lines 388 and 396)
MAX_MATCHES == 5

PipeInit ==
    /\ pc = "start"
    /\ raw_read \in SeqsUpTo(RawRows, MaxRaw)
    /\ raw = raw_read
    /\ features \in SeqsUpTo(FeatureRows, MaxFeat)
    /\ pair_map = <<>>
    /\ merged = <<>>
    /\ targets = <<>>
    /\ printed = <<>>
    /\ h2h_overall = <<>>
    /\ h2h_venue = <<>>
    /\ selected_overall = <<>>
    /\ selected_venue = <<>>
    /\ written = FALSE
    /\ error = NoError

\* lines 243-244
ResolveLeagues ==
    /\ pc = "start"
    /\ raw' = SelectSeq([i \in 1..Len(raw) |-> WithLeague(raw[i])], LeagueResolved)
    /\ pc' = "canonicalize"
    /\ UNCHANGED <<features, pair_map, merged, h2h_overall, h2h_venue,
                   selected_overall, selected_venue, written, error,
                   raw_read, targets, printed>>

\* lines 246-266
Canonicalize ==
    /\ pc = "canonicalize"
    /\ raw' = [i \in 1..Len(raw) |-> Canonical(raw[i])]
    /\ pc' = "index"
    /\ UNCHANGED <<features, pair_map, merged, h2h_overall, h2h_venue,
                   selected_overall, selected_venue, written, error,
                   raw_read, targets, printed>>

\* lines 268-284
BuildIndex ==
    /\ pc = "index"
    /\ pair_map' = IndexRows(SelectSeq(raw, H2HSourceRow), <<>>)
    /\ pc' = "sort"
    /\ UNCHANGED <<raw, features, merged, h2h_overall, h2h_venue,
                   selected_overall, selected_venue, written, error,
                   raw_read, targets, printed>>

\* lines 286-287
SortIndex ==
    /\ pc = "sort"
    /\ pair_map' = [k \in DOMAIN pair_map |-> SortByDate(pair_map[k])]
    /\ pc' = "merge"
    /\ UNCHANGED <<raw, features, merged, h2h_overall, h2h_venue,
                   selected_overall, selected_venue, written, error,
                   raw_read, targets, printed>>

\* lines 289-312
Merge ==
    /\ pc = "merge"
    /\ LET right == [i \in 1..Len(raw) |-> Outcome(raw[i])]
       IN  IF RightUnique(right)
           THEN /\ merged' = [i \in 1..Len(features) |-> MergeRow(features[i], right)]
                /\ pc' = "derive"
                /\ error' = error
           ELSE /\ merged' = merged
                /\ pc' = "aborted"
                /\ error' = "MergeError"
    /\ UNCHANGED <<raw, features, pair_map, h2h_overall, h2h_venue,
                   selected_overall, selected_venue, written,
                   raw_read, targets, printed>>

\* lines 314-375
Derive ==
    /\ pc = "derive"
    /\ targets' = [i \in 1..Len(merged) |-> DeriveTargets(merged[i])]
    /\ pc' = "h2h"
    /\ UNCHANGED <<raw_read, raw, features, pair_map, merged, h2h_overall, h2h_venue,
                   selected_overall, selected_venue, written, printed, error>>

\* lines 379-400: one iteration of the loop over the merged rows
H2HRow ==
    /\ pc = "h2h"
    /\ Len(h2h_overall) < Len(merged)
    /\ LET row  == merged[Len(h2h_overall) + 1]
           date == ToDatetime(row.date)
           key  == build_pair_key(row.homeTeam, row.awayTeam)
           ms   == IF key \in DOMAIN pair_map THEN pair_map[key] ELSE <<>>
       IN  /\ h2h_overall' = Append(h2h_overall,
                 compute_h2h_stats(ms, row.homeTeam, row.awayTeam, date, MAX_MATCHES, FALSE))
           /\ h2h_venue' = Append(h2h_venue,
                 compute_h2h_stats(ms, row.homeTeam, row.awayTeam, date, MAX_MATCHES, TRUE))
           /\ selected_overall' = Append(selected_overall,
                 h2h_selected(ms, row.homeTeam, row.awayTeam, date, MAX_MATCHES, FALSE))
           /\ selected_venue' = Append(selected_venue,
                 h2h_selected(ms, row.homeTeam, row.awayTeam, date, MAX_MATCHES, TRUE))
    /\ UNCHANGED <<pc, raw_read, raw, features, pair_map, merged, targets, written,
                   printed, error>>

\* lines 402-422: the snapshot columns, then to_csv; a DataFrame built from
\* an empty list has no "matches" column
Write ==
    /\ pc = "h2h"
    /\ Len(h2h_overall) = Len(merged)
    /\ IF h2h_overall = <<>>
       THEN /\ pc' = "aborted"
            /\ error' = "KeyError"
            /\ written' = written
       ELSE /\ pc' = "report"
            /\ error' = error
            /\ written' = TRUE
    /\ UNCHANGED <<raw_read, raw, features, pair_map, merged, targets, h2h_overall,
                   h2h_venue, selected_overall, selected_venue, printed>>

\* lines 424-430: the two lines main() prints
Report ==
    /\ pc = "report"
    /\ printed' = <<[text |-> "Targets written to", values |-> [c \in {} |-> 0]],
                    [text |-> "Coverage:",
                     values |-> [c \in COVERAGE_COLUMNS |-> NotNaCount(targets, c)]]>>
    /\ pc' = "done"
    /\ UNCHANGED <<raw_read, raw, features, pair_map, merged, targets, h2h_overall,
                   h2h_venue, selected_overall, selected_venue, written, error>>


IdlePipe ==
    /\ pc = "idle"
    /\ raw_read = <<>>
    /\ raw = <<>>
    /\ features = <<>>
    /\ pair_map = <<>>
    /\ merged = <<>>
    /\ targets = <<>>
    /\ printed = <<>>
    /\ h2h_overall = <<>>
    /\ h2h_venue = <<>>
    /\ selected_overall = <<>>
    /\ selected_venue = <<>>
    /\ written = FALSE
    /\ error = NoError

IdleH2H ==
    /\ h2h_pc = "idle"
    /\ matches = <<>>
    /\ current_home = TeamA
    /\ current_away = TeamB
    /\ current_date = 0
    /\ max_matches = MAX_MATCHES
    /\ overall_stats = EMPTY_STATS
    /\ venue_stats = EMPTY_STATS
    /\ overall_selected = <<>>
    /\ venue_selected = <<>>

IdleName ==
    /\ name_pc = "idle"
    /\ raw_name = <<>>
    /\ other_name = <<>>
    /\ once = <<>>
    /\ twice = <<>>
    /\ other_once = <<>>

IdleDerive ==
    /\ derive_pc = "idle"
    /\ merged_row = <<>>
    /\ row_targets = <<>>

IdleFeat ==
    /\ feat_pc = "idle"
    /\ df = <<>>
    /\ market_key = "1x2"
    /\ train_X = {}
    /\ eval_X = {}

IdleKey ==
    /\ key_pc = "idle"
    /\ h2h_source = <<>>
    /\ fixture = <<TeamA, TeamB>>
    /\ key_map = <<>>
    /\ key_matches = <<>>

IdleOthers == IdleDerive /\ IdleFeat /\ IdleKey

Init == PipeInit /\ IdleH2H /\ IdleName /\ IdleOthers
Next ==
    \/ ResolveLeagues /\ UNCHANGED <<h2hVars, nameVars, otherVars>>
    \/ Canonicalize /\ UNCHANGED <<h2hVars, nameVars, otherVars>>
    \/ BuildIndex /\ UNCHANGED <<h2hVars, nameVars, otherVars>>
    \/ SortIndex /\ UNCHANGED <<h2hVars, nameVars, otherVars>>
    \/ Merge /\ UNCHANGED <<h2hVars, nameVars, otherVars>>
    \/ Derive /\ UNCHANGED <<h2hVars, nameVars, otherVars>>
    \/ H2HRow /\ UNCHANGED <<h2hVars, nameVars, otherVars>>
    \/ Write /\ UNCHANGED <<h2hVars, nameVars, otherVars>>
    \/ Report /\ UNCHANGED <<h2hVars, nameVars, otherVars>>
Spec == Init /\ [][Next]_vars

(***************************************************************************)
(* compute_h2h_stats on its own: a date-sorted pair history, a fixture and *)
(* a window, queried for both variants as main() does (lines 383-398).     *)
(***************************************************************************)
SCORES == { <<2, 1>>, <<0, 0>>, <<0, 3>> }

HistoryMatches ==
    { H2HMatch(d, tm[1], tm[2], sc[1], sc[2]) :
        d \in 1..MaxDate, tm \in { <<TeamA, TeamB>>, <<TeamB, TeamA>> }, sc \in SCORES }

DateSorted(ms) == \A i \in 1..(Len(ms) - 1) : ms[i].date <= ms[i + 1].date

H2HInit ==
    /\ h2h_pc = "call"
    /\ matches \in { ms \in SeqsUpTo(HistoryMatches, MaxHist) : DateSorted(ms) }
    /\ current_home \in {TeamA, TeamB}
    /\ current_away = IF current_home = TeamA THEN TeamB ELSE TeamA
    /\ current_date \in 1..(MaxDate + 1)
    /\ max_matches \in 0..MaxWindow
    /\ overall_stats = EMPTY_STATS
    /\ venue_stats = EMPTY_STATS
    /\ overall_selected = <<>>
    /\ venue_selected = <<>>

QueryH2H ==
    /\ h2h_pc = "call"
    /\ overall_stats' = compute_h2h_stats(matches, current_home, current_away,
                                          current_date, max_matches, FALSE)
    /\ venue_stats' = compute_h2h_stats(matches, current_home, current_away,
                                        current_date, max_matches, TRUE)
    /\ overall_selected' = h2h_selected(matches, current_home, current_away,
                                        current_date, max_matches, FALSE)
    /\ venue_selected' = h2h_selected(matches, current_home, current_away,
                                      current_date, max_matches, TRUE)
    /\ h2h_pc' = "returned"
    /\ UNCHANGED <<matches, current_home, current_away, current_date, max_matches>>

H2HSpecInit == IdlePipe /\ H2HInit /\ IdleName /\ IdleOthers
H2HSpecNext == QueryH2H /\ UNCHANGED <<pipeVars, nameVars, otherVars>>
H2HSpec == H2HSpecInit /\ [][H2HSpecNext]_vars

(***************************************************************************)
(* normalize_team_name on its own: a raw name is normalized, its output is *)
(* normalized again, and a second spelling of the name is normalized.      *)
(***************************************************************************)
NameChars == {"a", "ã", "Ã", "å", "c", "ç", " ", "-"}

\* the letter a character is a cased or accented form of
BASE_LETTER ==
    "A" :> "a" @@ "ã" :> "a" @@ "Ã" :> "a" @@ "å" :> "a" @@ "ç" :> "c"
BaseLetter(ch) == IF ch \in DOMAIN BASE_LETTER THEN BASE_LETTER[ch] ELSE ch

\* the character without its accent mark, case kept
UNACCENTED == "ã" :> "a" @@ "Ã" :> "A" @@ "å" :> "a" @@ "ç" :> "c"
Unaccented(ch) == IF ch \in DOMAIN UNACCENTED THEN UNACCENTED[ch] ELSE ch

\* the character in lower case, accent kept
LOWERCASED == "A" :> "a" @@ "Ã" :> "ã"
Lowercased(ch) == IF ch \in DOMAIN LOWERCASED THEN LOWERCASED[ch] ELSE ch

NameInit ==
    /\ name_pc = "call"
    /\ raw_name \in SeqsUpTo(NameChars, MaxNameLen)
    /\ other_name = <<>>
    /\ once = <<>>
    /\ twice = <<>>
    /\ other_once = <<>>

NormalizeName ==
    /\ name_pc = "call"
    /\ once' = normalize_team_name(raw_name)
    /\ name_pc' = "once"
    /\ UNCHANGED <<raw_name, other_name, twice, other_once>>

NormalizeAgain ==
    /\ name_pc = "once"
    /\ twice' = normalize_team_name(once)
    /\ name_pc' = "twice"
    /\ UNCHANGED <<raw_name, other_name, once, other_once>>

\* a second spelling: the same letters, in any case and with any accent
NormalizeOther ==
    /\ name_pc = "twice"
    /\ \E s \in [1..Len(raw_name) -> NameChars] :
          /\ \A i \in 1..Len(raw_name) : BaseLetter(s[i]) = BaseLetter(raw_name[i])
          /\ other_name' = s
          /\ other_once' = normalize_team_name(s)
    /\ name_pc' = "compared"
    /\ UNCHANGED <<raw_name, once, twice>>

NameSpecInit == IdlePipe /\ IdleH2H /\ NameInit /\ IdleOthers
NameSpecNext ==
    \/ NormalizeName /\ UNCHANGED <<pipeVars, h2hVars, otherVars>>
    \/ NormalizeAgain /\ UNCHANGED <<pipeVars, h2hVars, otherVars>>
    \/ NormalizeOther /\ UNCHANGED <<pipeVars, h2hVars, otherVars>>
NameSpec == NameSpecInit /\ [][NameSpecNext]_vars

(***************************************************************************)
(* The derived targets of one merged row (lines 314-375), over rows with   *)
(* any combination of missing fields.                                      *)
(***************************************************************************)
GOALS == {None} \cup 0..MaxGoals
HALF_TIME_GOALS == {None, 0, 1}
CARDS == {None, 1}
CORNERS == {None, 3}

\* a team has not scored more goals at half time than at full time
HalfWithinFull(half, full) == half = None \/ full = None \/ half <= full

MergedRows ==
    { [homeGoals |-> hg, awayGoals |-> ag,
       outcome |-> [HTHome |-> hh, HTAway |-> ha, HomeCorners |-> hc, AwayCorners |-> ac,
                    HomeYellow |-> hy, AwayYellow |-> ay, HomeRed |-> hr, AwayRed |-> ar]] :
        hg \in GOALS, ag \in GOALS,
        hh \in HALF_TIME_GOALS, ha \in HALF_TIME_GOALS,
        hc \in CORNERS, ac \in CORNERS,
        hy \in CARDS, ay \in CARDS, hr \in CARDS, ar \in CARDS }

DeriveInit ==
    /\ derive_pc = "start"
    /\ merged_row \in MergedRows
    /\ HalfWithinFull(merged_row.outcome.HTHome, merged_row.homeGoals)
    /\ HalfWithinFull(merged_row.outcome.HTAway, merged_row.awayGoals)
    /\ row_targets = <<>>

\* lines 314-375, for one row
DeriveRow ==
    /\ derive_pc = "start"
    /\ row_targets' = DeriveTargets(merged_row)
    /\ derive_pc' = "done"
    /\ UNCHANGED merged_row

DeriveSpecInit == IdlePipe /\ IdleH2H /\ IdleName /\ DeriveInit /\ IdleFeat /\ IdleKey
DeriveSpecNext == DeriveRow /\ UNCHANGED <<pipeVars, h2hVars, nameVars, featVars, keyVars>>
DeriveSpec == DeriveSpecInit /\ [][DeriveSpecNext]_vars

(***************************************************************************)
(* ml/models/train-markets.py and ml/models/evaluate-offline.py: the       *)
(* feature columns each stage takes from the table of targets.  A table   *)
(* is its set of rows and the dtypes of its columns.                       *)
(***************************************************************************)
\* train-markets.py, lines 13-33
TRAIN_MARKETS ==
    "1x2" :> [target |-> "result", type |-> "multiclass"]
    @@ "btts" :> [target |-> "btts_yes", type |-> "binary"]
    @@ "ou_0_5" :> [target |-> "ou_over_0_5", type |-> "binary"]
    @@ "ou_1_5" :> [target |-> "ou_over_1_5", type |-> "binary"]
    @@ "ou_2_5" :> [target |-> "ou_over_2_5", type |-> "binary"]
    @@ "ou_3_5" :> [target |-> "ou_over_3_5", type |-> "binary"]
    @@ "ou_4_5" :> [target |-> "ou_over_4_5", type |-> "binary"]
    @@ "ou_5_5" :> [target |-> "ou_over_5_5", type |-> "binary"]
    @@ "fh_1x2" :> [target |-> "fh_result", type |-> "multiclass"]
    @@ "fh_goals" :> [target |-> "fh_goals_total", type |-> "regression"]
    @@ "sh_goals" :> [target |-> "sh_goals_total", type |-> "regression"]
    @@ "clean_sheet_home" :> [target |-> "clean_sheet_home", type |-> "binary"]
    @@ "clean_sheet_away" :> [target |-> "clean_sheet_away", type |-> "binary"]
    @@ "total_cards" :> [target |-> "total_cards", type |-> "regression"]
    @@ "home_cards" :> [target |-> "home_cards", type |-> "regression"]
    @@ "away_cards" :> [target |-> "away_cards", type |-> "regression"]
    @@ "total_corners" :> [target |-> "total_corners", type |-> "regression"]
    @@ "home_corners" :> [target |-> "home_corners", type |-> "regression"]
    @@ "away_corners" :> [target |-> "away_corners", type |-> "regression"]

\* train-markets.py, lines 37-53
ranges == <<<<1, 2>>, <<1, 3>>, <<1, 4>>, <<1, 5>>, <<1, 6>>, <<2, 3>>, <<2, 4>>,
            <<2, 5>>, <<2, 6>>, <<3, 4>>, <<3, 5>>, <<3, 6>>, <<4, 5>>, <<4, 6>>,
            <<5, 6>>>>

\* train-markets.py, lines 54-66: the loop, from the i-th range on
RECURSIVE AddRangeMarketsFrom(_, _)
AddRangeMarketsFrom(markets, i) ==
    IF i > Len(ranges) THEN markets
    ELSE LET total == RangeColumn("total_range_", ranges[i])
             home  == RangeColumn("home_range_", ranges[i])
             away  == RangeColumn("away_range_", ranges[i])
         IN  AddRangeMarketsFrom(
                 (total :> [target |-> total, type |-> "binary"])
                 @@ (home :> [target |-> home, type |-> "binary"])
                 @@ (away :> [target |-> away, type |-> "binary"])
                 @@ markets, i + 1)
add_range_markets == AddRangeMarketsFrom(TRAIN_MARKETS, 1)

\* evaluate-offline.py, lines 10-19
EVAL_MARKETS ==
    "1x2" :> [target |-> "result", type |-> "multiclass"]
    @@ "btts" :> [target |-> "btts_yes", type |-> "binary"]
    @@ "ou_0_5" :> [target |-> "ou_over_0_5", type |-> "binary"]
    @@ "ou_1_5" :> [target |-> "ou_over_1_5", type |-> "binary"]
    @@ "ou_2_5" :> [target |-> "ou_over_2_5", type |-> "binary"]
    @@ "ou_3_5" :> [target |-> "ou_over_3_5", type |-> "binary"]
    @@ "ou_4_5" :> [target |-> "ou_over_4_5", type |-> "binary"]
    @@ "ou_5_5" :> [target |-> "ou_over_5_5", type |-> "binary"]

\* str.startswith
StartsWith(s, prefix) == Len(prefix) <= Len(s) /\ SubSeq(s, 1, Len(prefix)) = prefix

\* lines 110-130 of train-markets.py
train_drop_cols ==
    {"homeGoals", "awayGoals", "totalGoals", "HTHome", "HTAway", "HomeCorners",
     "AwayCorners", "HomeYellow", "AwayYellow", "HomeRed", "AwayRed", "fh_goals_total",
     "sh_goals_total", "home_cards", "away_cards", "total_cards", "home_corners",
     "away_corners", "total_corners"}

\* prepare_features of train-markets.py (lines 108-144)
train_prepare_features(table, target_columns) ==
    LET numeric_df == {c \in DOMAIN table : table[c] = "number"}
        dropped    == numeric_df \ (train_drop_cols \cup target_columns)
    IN  {c \in dropped :
            ~(\/ StartsWith(c, "ou_over_")
              \/ StartsWith(c, "total_range_")
              \/ StartsWith(c, "home_range_")
              \/ StartsWith(c, "away_range_")
              \/ StartsWith(c, "clean_sheet_"))}

\* lines 51-71 of evaluate-offline.py
eval_drop_cols ==
    {"homeGoals", "awayGoals", "totalGoals", "HTHome", "HTAway", "HomeCorners",
     "AwayCorners", "HomeYellow", "AwayYellow", "HomeRed", "AwayRed", "fh_goals_total",
     "sh_goals_total", "home_cards", "away_cards", "total_cards", "home_corners",
     "away_corners", "total_corners"}

\* prepare_features of evaluate-offline.py (lines 49-85)
eval_prepare_features(table, target_columns) ==
    LET numeric_df == {c \in DOMAIN table : table[c] = "number"}
        dropped    == numeric_df \ (eval_drop_cols \cup target_columns)
    IN  {c \in dropped :
            ~(\/ StartsWith(c, "ou_over_")
              \/ StartsWith(c, "total_range_")
              \/ StartsWith(c, "home_range_")
              \/ StartsWith(c, "away_range_")
              \/ StartsWith(c, "clean_sheet_"))}

\* train-markets.py line 282 and evaluate-offline.py line 152
train_target_columns == {add_range_markets[m].target : m \in DOMAIN add_range_markets}
eval_target_columns == {EVAL_MARKETS[m].target : m \in DOMAIN EVAL_MARKETS}

\* create-targets.py, lines 405-419: the snapshot columns
H2H_STATS == {"matches", "home_win_pct", "away_win_pct", "draw_pct", "avg_goals",
              "btts_pct", "over_2_5_pct"}
H2H_COLUMNS == {"h2h_overall_" \o s : s \in H2H_STATS} \cup {"h2h_venue_" \o s : s \in H2H_STATS}

\* create-targets.py, lines 314-375: the columns the derived targets add
TARGET_COLUMNS ==
    DOMAIN DeriveTargets([homeGoals |-> None, awayGoals |-> None,
                          outcome |-> [c \in OUTCOME_COLUMNS |-> None]])

\* the columns of the table create-targets.py writes: those of the feature
\* table that the three stages name, the outcome columns, the derived targets
\* and the snapshots
TABLE_COLUMNS ==
    {"date", "leagueId", "homeTeam", "awayTeam", "season", "result", "homeGoals", "awayGoals"}
    \cup OUTCOME_COLUMNS \cup TARGET_COLUMNS \cup H2H_COLUMNS
TEXT_COLUMNS == {"date", "homeTeam", "awayTeam"}
LABEL_COLUMNS == {"result", "fh_result"}
\* the columns create-targets.py computes from the half-time goals, from the
\* cards and from the corners (lines 355-375), with the columns they come from
HALF_TIME_COLUMNS == {"HTHome", "HTAway", "fh_result", "fh_goals_total", "sh_goals_total"}
CARD_COLUMNS == {"HomeYellow", "AwayYellow", "HomeRed", "AwayRed",
                 "home_cards", "away_cards", "total_cards"}
CORNER_COLUMNS == {"HomeCorners", "AwayCorners", "home_corners", "away_corners",
                   "total_corners"}

\* the labels train_market and evaluate_market keep (lines 204 and 146)
LABELS == {"HOME", "DRAW", "AWAY"}

\* argparse defaults of train-markets.py
TRAIN_END == 2022
VAL == 2023
TEST_START == 2024
SEASONS == {TRAIN_END, VAL, TEST_START}

\* the rows a table is made of: a row with every value, a row without
\* half-time goals, without cards, without corners, with a result label that
\* is none of LABELS, and a row with no outcome at all
ROW_KINDS ==
    << [result |-> "HOME", fh_result |-> "DRAW", cards |-> TRUE, corners |-> TRUE],
       [result |-> "HOME", fh_result |-> NoLabel, cards |-> TRUE, corners |-> TRUE],
       [result |-> "HOME", fh_result |-> "DRAW", cards |-> FALSE, corners |-> TRUE],
       [result |-> "HOME", fh_result |-> "DRAW", cards |-> TRUE, corners |-> FALSE],
       [result |-> "H", fh_result |-> "DRAW", cards |-> TRUE, corners |-> TRUE],
       [result |-> NoLabel, fh_result |-> NoLabel, cards |-> FALSE, corners |-> FALSE] >>

TableRow(season, kind) ==
    [season |-> season, result |-> ROW_KINDS[kind].result,
     fh_result |-> ROW_KINDS[kind].fh_result, cards |-> ROW_KINDS[kind].cards,
     corners |-> ROW_KINDS[kind].corners]

\* the tables of at most one row per season; kind 0 is no row of that season
Tables ==
    { {TableRow(s, kinds[s]) : s \in {s \in SEASONS : kinds[s] # 0}} :
        kinds \in [SEASONS -> 0..Len(ROW_KINDS)] }

\* Series.notna() of a column, for one row
NotNa(row, column) ==
    IF column = "result" THEN row.result # NoLabel
    ELSE IF column \in HALF_TIME_COLUMNS THEN row.fh_result # NoLabel
    ELSE IF column \in CARD_COLUMNS THEN row.cards
    ELSE IF column \in CORNER_COLUMNS THEN row.corners
    ELSE TRUE

\* the label of a row in a column of labels
LabelOf(row, column) == IF column = "result" THEN row.result ELSE row.fh_result

\* pd.read_csv: a column that holds text in some row is of dtype object; a
\* column of numbers, and a column that holds no value in a table with rows,
\* is of a number dtype; every column of a table without rows is object
ReadCsv(rows) ==
    [rows |-> rows,
     dtypes |-> [c \in TABLE_COLUMNS |->
        IF rows = {} THEN "object"
        ELSE IF c \in TEXT_COLUMNS THEN "object"
        ELSE IF c \in LABEL_COLUMNS /\ (\E r \in rows : NotNa(r, c)) THEN "object"
        ELSE "number"]]

\* train-markets.py, lines 147-153
split_by_season(rows, train_end, val_season, test_start) ==
    [train |-> {r \in rows : r.season <= train_end},
     val   |-> {r \in rows : r.season = val_season},
     test  |-> {r \in rows : r.season >= test_start}]

\* the value train_X and eval_X hold when a stage took no feature columns
NoColumns == {}

\* train_market of train-markets.py (lines 192-218): the columns of X_train,
\* or none when the market is skipped for an empty split
train_market(frame, key) ==
    LET config == add_range_markets[key]
        target == config.target
        notna  == {r \in frame.rows : NotNa(r, target)}
        subset == IF config.type = "multiclass"
                  THEN [rows |-> {r \in notna : LabelOf(r, target) \in LABELS},
                        dtypes |-> [frame.dtypes EXCEPT ![target] = "number"]]
                  ELSE [rows |-> notna, dtypes |-> frame.dtypes]
        split  == split_by_season(subset.rows, TRAIN_END, VAL, TEST_START)
    IN  IF split.train = {} \/ split.val = {} \/ split.test = {}
        THEN NoColumns
        ELSE train_prepare_features(subset.dtypes, train_target_columns)

\* the season arguments of evaluate-offline.py: none, a season, a range with
\* one end or both ends
EVAL_ARGS ==
    { [season |-> None, from_season |-> None, to_season |-> None],
      [season |-> 2021, from_season |-> None, to_season |-> None],
      [season |-> 2023, from_season |-> None, to_season |-> None],
      [season |-> None, from_season |-> 2023, to_season |-> None],
      [season |-> None, from_season |-> None, to_season |-> 2023],
      [season |-> None, from_season |-> 2023, to_season |-> 2024] }

\* evaluate-offline.py, lines 125-132
filter_seasons(frame, args) ==
    LET seasons == {r.season : r \in frame.rows}
    IN  IF args.season # None
        THEN [frame EXCEPT !.rows = {r \in frame.rows : r.season = args.season}]
        ELSE IF args.from_season # None \/ args.to_season # None
        THEN IF frame.rows = {} THEN frame
             ELSE LET start == IF args.from_season # None THEN args.from_season
                               ELSE CHOOSE s \in seasons : \A t \in seasons : s <= t
                      end   == IF args.to_season # None THEN args.to_season
                               ELSE CHOOSE s \in seasons : \A t \in seasons : s >= t
                  IN  [frame EXCEPT !.rows = {r \in frame.rows :
                                                 r.season >= start /\ r.season <= end}]
        ELSE frame

\* evaluate_market of evaluate-offline.py (lines 135-153): the columns of X,
\* or none when the market is skipped
evaluate_market(frame, market) ==
    IF market \notin DOMAIN EVAL_MARKETS THEN NoColumns
    ELSE LET target == EVAL_MARKETS[market].target
             subset == {r \in frame.rows : NotNa(r, target)}
         IN  IF subset = {} THEN NoColumns
             ELSE eval_prepare_features(frame.dtypes, eval_target_columns)

FeatInit ==
    /\ feat_pc = "start"
    /\ df \in {ReadCsv(rows) : rows \in Tables}
    /\ market_key \in DOMAIN add_range_markets
    /\ train_X = NoColumns
    /\ eval_X = NoColumns

\* main and train_market of train-markets.py (lines 277-294), for one market
TrainMarket ==
    /\ feat_pc = "start"
    /\ train_X' = train_market(df, market_key)
    /\ feat_pc' = "trained"
    /\ UNCHANGED <<df, market_key, eval_X>>

\* main of evaluate-offline.py (lines 175-182), for one market
EvalMarket ==
    /\ feat_pc = "trained"
    /\ \E args \in EVAL_ARGS :
          eval_X' = evaluate_market(filter_seasons(df, args), market_key)
    /\ feat_pc' = "evaluated"
    /\ UNCHANGED <<df, market_key, train_X>>

FeatSpecInit == IdlePipe /\ IdleH2H /\ IdleName /\ IdleDerive /\ FeatInit /\ IdleKey
FeatSpecNext ==
    \/ TrainMarket /\ UNCHANGED <<pipeVars, h2hVars, nameVars, deriveVars, keyVars>>
    \/ EvalMarket /\ UNCHANGED <<pipeVars, h2hVars, nameVars, deriveVars, keyVars>>
FeatSpec == FeatSpecInit /\ [][FeatSpecNext]_vars


(***************************************************************************)
(* The index and the lookup of main() (lines 272-287 and 379-382), over    *)
(* team names that hold the character the key is joined with.              *)
(***************************************************************************)
KEY_TEAMS == {<<"A">>, <<"b">>, <<"A", "_">>, <<"_", "b">>}
KeyFixtures == {pair \in KEY_TEAMS \X KEY_TEAMS : pair[1] # pair[2]}
KeyRows ==
    { [date |-> Stamp(1, 1), leagueId |-> 39, homeTeam |-> pair[1], awayTeam |-> pair[2],
       results |-> [FTHome |-> 2, FTAway |-> 1]] : pair \in KeyFixtures }

KeyInit ==
    /\ key_pc = "start"
    /\ h2h_source \in SeqsUpTo(KeyRows, MaxRaw)
    /\ fixture \in KeyFixtures
    /\ key_map = <<>>
    /\ key_matches = <<>>

\* lines 272-287
KeyIndex ==
    /\ key_pc = "start"
    /\ LET built == IndexRows(SelectSeq(h2h_source, H2HSourceRow), <<>>)
       IN  key_map' = [k \in DOMAIN built |-> SortByDate(built[k])]
    /\ key_pc' = "indexed"
    /\ UNCHANGED <<h2h_source, fixture, key_matches>>

\* lines 381-382: pair_map.get(key, [])
KeyLookup ==
    /\ key_pc = "indexed"
    /\ LET key == build_pair_key(fixture[1], fixture[2])
       IN  key_matches' = IF key \in DOMAIN key_map THEN key_map[key] ELSE <<>>
    /\ key_pc' = "found"
    /\ UNCHANGED <<h2h_source, fixture, key_map>>

KeySpecInit == IdlePipe /\ IdleH2H /\ IdleName /\ IdleDerive /\ IdleFeat /\ KeyInit
KeySpecNext ==
    \/ KeyIndex /\ UNCHANGED <<pipeVars, h2hVars, nameVars, deriveVars, featVars>>
    \/ KeyLookup /\ UNCHANGED <<pipeVars, h2hVars, nameVars, deriveVars, featVars>>
KeySpec == KeySpecInit /\ [][KeySpecNext]_vars

(***************************************************************************)
(* Properties.                                                             *)
(***************************************************************************)
IsDone == h2h_pc = "returned"

\* the matches of a history dated strictly before the fixture, oldest first
IsBefore(m) == m.date < current_date
Eligible == SelectSeq(matches, IsBefore)

\* those of them played in the fixture's own direction
IsVenue(m) == m.date < current_date /\ m.home_team = current_home /\ m.away_team = current_away
VenueEligible == SelectSeq(matches, IsVenue)

Min(a, b) == IF a < b THEN a ELSE b

\* the last n entries of s
LastN(s, n) == SubSeq(s, Len(s) - Min(n, Len(s)) + 1, Len(s))

\* the goals a team scored in a match it played in
GoalsOf(m, team) == IF m.away_team = team THEN m.away_goals ELSE m.home_goals

Count(s, P(_)) == Cardinality({i \in 1..Len(s) : P(s[i])})

\* the scenario of the specification: TeamA 2-1 TeamB, then TeamB 0-0 TeamA,
\* then the fixture TeamA against TeamB
Scenario ==
    /\ matches = <<H2HMatch(1, TeamA, TeamB, 2, 1), H2HMatch(2, TeamB, TeamA, 0, 0)>>
    /\ current_home = TeamA
    /\ current_away = TeamB
    /\ current_date = 3
    /\ max_matches = 2

\* C1: in the pipeline, every match selected for a fixture of date D, in the
\* overall and in the venue variant, is dated strictly before D, and the
\* snapshot counts exactly the selected matches.
C1_Causality ==
    \A i \in 1..Len(h2h_overall) :
        LET D == ToDatetime(merged[i].date)
        IN  /\ \A k \in 1..Len(selected_overall[i]) : selected_overall[i][k].date < D
            /\ \A k \in 1..Len(selected_venue[i]) : selected_venue[i][k].date < D
            /\ h2h_overall[i].matches = Len(selected_overall[i])
            /\ h2h_venue[i].matches = Len(selected_venue[i])

\* a fixture whose pair history holds a match before its date, which both
\* variants count, and a match on or after its date
C1_Witness ==
    /\ pc = "done"
    /\ \E i \in 1..Len(h2h_overall) :
          LET D   == ToDatetime(merged[i].date)
              key == build_pair_key(merged[i].homeTeam, merged[i].awayTeam)
          IN  /\ h2h_overall[i].matches > 0
              /\ h2h_venue[i].matches > 0
              /\ key \in DOMAIN pair_map
              /\ \E k \in 1..Len(pair_map[key]) : pair_map[key][k].date >= D

\* the selected matches the fixture's home team won, and those it lost,
\* whichever side it played on
HomeOutscores(m) == GoalsOf(m, current_home) > GoalsOf(m, current_away)
AwayOutscores(m) == GoalsOf(m, current_away) > GoalsOf(m, current_home)

ReorientedWins ==
    LET n == Len(overall_selected)
    IN  /\ overall_stats.home_win_pct
             = Quotient(100 * Count(overall_selected, HomeOutscores), n)
        /\ overall_stats.away_win_pct
             = Quotient(100 * Count(overall_selected, AwayOutscores), n)

\* C2 as stated: the overall snapshot counts as home wins exactly the selected
\* matches in which the fixture's home team outscored its away team, and as
\* away wins exactly those in which the away team outscored the home team,
\* whichever side each played on; in the scenario it is 2 matches, 50 / 50 / 0
\* percent, 1.5 goals on average, 0 percent both-scored, 0 percent over 2.5.
C2_AsStated ==
    IsDone /\ overall_selected # <<>> =>
        /\ ReorientedWins
        /\ Scenario =>
              overall_stats = [matches |-> 2,
                               home_win_pct |-> [num |-> 50, den |-> 1],
                               draw_pct |-> [num |-> 50, den |-> 1],
                               away_win_pct |-> [num |-> 0, den |-> 1],
                               avg_goals |-> [num |-> 3, den |-> 2],
                               btts_pct |-> [num |-> 0, den |-> 1],
                               over_2_5_pct |-> [num |-> 0, den |-> 1]]

\* C2, amended: the same counting of home and away wins; in the scenario the
\* 2-1 match has both teams scoring and three goals, so the snapshot is
\* 2 matches, 50 / 50 / 0 percent, 1.5 goals on average, 50 percent
\* both-scored and 50 percent over 2.5.
C2_Reorientation ==
    IsDone /\ overall_selected # <<>> =>
        /\ ReorientedWins
        /\ Scenario =>
              overall_stats = [matches |-> 2,
                               home_win_pct |-> [num |-> 50, den |-> 1],
                               draw_pct |-> [num |-> 50, den |-> 1],
                               away_win_pct |-> [num |-> 0, den |-> 1],
                               avg_goals |-> [num |-> 3, den |-> 2],
                               btts_pct |-> [num |-> 50, den |-> 1],
                               over_2_5_pct |-> [num |-> 50, den |-> 1]]

\* a snapshot over a match the fixture's home team won as the away side
C2_Witness ==
    /\ IsDone
    /\ \E k \in 1..Len(overall_selected) :
          /\ overall_selected[k].home_team = current_away
          /\ overall_selected[k].away_goals > overall_selected[k].home_goals
    /\ overall_stats.home_win_pct.num > 0

\* the scenario itself, answered
C2_ScenarioReached == IsDone /\ Scenario

\* C3: with max_matches >= 1, the overall variant selects exactly the last
\* min(max_matches, e) of the e matches dated before the fixture, oldest
\* first, and reports that many matches.
C3_OverallSelection ==
    IsDone /\ max_matches >= 1 =>
        /\ overall_selected = LastN(Eligible, max_matches)
        /\ overall_stats.matches = Min(max_matches, Len(Eligible))

\* more eligible matches than the window holds, and a match that is not eligible
C3_Witness ==
    /\ IsDone
    /\ max_matches >= 1
    /\ Len(Eligible) > max_matches
    /\ Len(matches) > Len(Eligible)
    /\ overall_stats.matches = max_matches

\* C4: the overall snapshot never counts more than max_matches matches,
\* whatever max_matches is, 0 included.
C4_WindowBound == IsDone => overall_stats.matches <= max_matches

\* C5: whatever max_matches is, the venue variant selects exactly the last
\* min(max_matches, v) of the v matches dated before the fixture that were
\* played in the fixture's own direction, oldest first, and never a match of
\* the reverse direction; in the scenario it is 1 match and 100 percent home
\* wins.
C5_VenueSelection ==
    IsDone =>
        /\ venue_selected = LastN(VenueEligible, max_matches)
        /\ venue_stats.matches = Min(max_matches, Len(VenueEligible))
        /\ \A k \in 1..Len(venue_selected) :
              /\ venue_selected[k].home_team = current_home
              /\ venue_selected[k].away_team = current_away
        /\ Scenario =>
              /\ venue_stats.matches = 1
              /\ venue_stats.home_win_pct = [num |-> 100, den |-> 1]

\* C6: for the same history, fixture and max_matches, the venue snapshot
\* counts no more matches than the overall snapshot.
C6_VenueAtMostOverall == IsDone => venue_stats.matches <= overall_stats.matches

\* both windows full, the venue window reaching further back than the overall one
C6_Witness ==
    /\ IsDone
    /\ max_matches >= 1
    /\ venue_stats.matches = max_matches
    /\ overall_stats.matches = max_matches
    /\ venue_selected # overall_selected

IsEmptyStats(stats) ==
    /\ stats.matches = 0
    /\ stats.home_win_pct = NoneStat
    /\ stats.away_win_pct = NoneStat
    /\ stats.draw_pct = NoneStat
    /\ stats.avg_goals = NoneStat
    /\ stats.btts_pct = NoneStat
    /\ stats.over_2_5_pct = NoneStat

IsFullStats(stats) ==
    /\ stats.matches > 0
    /\ stats.home_win_pct # NoneStat
    /\ stats.away_win_pct # NoneStat
    /\ stats.draw_pct # NoneStat
    /\ stats.avg_goals # NoneStat
    /\ stats.btts_pct # NoneStat
    /\ stats.over_2_5_pct # NoneStat

\* C7: a snapshot over no selected match has matches = 0 and None in its six
\* statistics; a snapshot with matches > 0 has None in none of them.
C7_EmptySnapshot ==
    IsDone =>
        /\ overall_selected = <<>> => IsEmptyStats(overall_stats)
        /\ venue_selected = <<>> => IsEmptyStats(venue_stats)
        /\ overall_selected # <<>> => IsFullStats(overall_stats)
        /\ venue_selected # <<>> => IsFullStats(venue_stats)

\* eligible matches, none in the fixture's direction: the venue snapshot is
\* empty and the overall snapshot is not
C7_Witness ==
    /\ IsDone
    /\ Eligible # <<>>
    /\ VenueEligible = <<>>
    /\ venue_stats.matches = 0
    /\ overall_stats.matches > 0

\* two canonical raw rows with the same date, league, home and away team
DuplicateOutcome ==
    \E i, j \in 1..Len(raw) :
        /\ i < j
        /\ DateOf(raw[i].date) = DateOf(raw[j].date)
        /\ raw[i].leagueId = raw[j].leagueId
        /\ raw[i].homeTeam = raw[j].homeTeam
        /\ raw[i].awayTeam = raw[j].awayTeam

PastMerge == pc \in {"derive", "h2h", "report", "done", "aborted"}

\* C8: when the canonical raw rows hold two rows with the same merge key,
\* the run ends at the merge with an integrity error and the output is never
\* written.
C8_MergeIntegrity ==
    PastMerge /\ DuplicateOutcome =>
        /\ pc = "aborted"
        /\ error = "MergeError"
        /\ ~written

\* two rows of the same day, at different times, for the same fixture, and a
\* feature row waiting for them
C8_Witness ==
    /\ pc = "aborted"
    /\ error = "MergeError"
    /\ features # <<>>
    /\ \E i, j \in 1..Len(raw) :
          /\ raw[i].date # raw[j].date
          /\ DateOf(raw[i].date) = DateOf(raw[j].date)
          /\ raw[i].homeTeam = raw[j].homeTeam
          /\ raw[i].awayTeam = raw[j].awayTeam

\* C9: normalizing the output of normalize_team_name gives that output again.
C9_Idempotence == name_pc \in {"twice", "compared"} => twice = once

\* a name the first pass changed and did not empty
C9_Witness ==
    /\ name_pc = "twice"
    /\ once # raw_name
    /\ once # <<>>
    /\ \E i \in 1..Len(raw_name) : raw_name[i] \in DOMAIN REPLACEMENTS

OnlyCaseDiffers ==
    /\ Len(other_name) = Len(raw_name)
    /\ \A i \in 1..Len(raw_name) : Lowercased(other_name[i]) = Lowercased(raw_name[i])

OnlyAccentsDiffer ==
    /\ Len(other_name) = Len(raw_name)
    /\ \A i \in 1..Len(raw_name) : Unaccented(other_name[i]) = Unaccented(raw_name[i])

\* C10: two names that differ only in letter case, or only in accent marks,
\* have the same normalized form.
C10_CaseAccentInvariance ==
    name_pc = "compared" /\ (OnlyCaseDiffers \/ OnlyAccentsDiffer) => other_once = once

(***************************************************************************)
(* The pair history index of main().                                       *)
(***************************************************************************)
IndexBuilt == pc \in {"merge", "derive", "h2h", "report", "done", "aborted"}

PairKeyOf(row) == build_pair_key(row.homeTeam, row.awayTeam)

\* the rows of the filtered raw table that hold both full-time goals, in the
\* order of the table, as matches
SourceMatches ==
    LET src == SelectSeq(raw, H2HSourceRow)
    IN  [i \in 1..Len(src) |->
            [key |-> PairKeyOf(src[i]),
             match |-> H2HMatch(src[i].date, src[i].homeTeam, src[i].awayTeam,
                                src[i].results.FTHome, src[i].results.FTAway)]]

\* the matches of ms of the earliest date of dates, then those of the next
\* date, and so on, each group in the order of ms
RECURSIVE InDateOrder(_, _)
InDateOrder(ms, dates) ==
    IF dates = {} THEN <<>>
    ELSE LET d == CHOOSE d \in dates : \A e \in dates : d <= e
             OnDate(m) == m.date = d
         IN  SelectSeq(ms, OnDate) \o InDateOrder(ms, dates \ {d})

\* the history the index must hold for a key
ExpectedHistory(key) ==
    LET OfKey(s) == s.key = key
        mine == SelectSeq(SourceMatches, OfKey)
        ms   == [i \in 1..Len(mine) |-> mine[i].match]
    IN  InDateOrder(ms, {ms[i].date : i \in 1..Len(ms)})

RECURSIVE TotalLen(_, _)
TotalLen(f, keys) ==
    IF keys = {} THEN 0
    ELSE LET k == CHOOSE k \in keys : TRUE IN Len(f[k]) + TotalLen(f, keys \ {k})

\* C11: once the index is built, every pair history is in ascending date
\* order with the matches of one date in the order of the raw table, the
\* histories hold each raw row of a resolved league with both full-time goals
\* exactly once, duplicates included, and the key of a pair does not depend on
\* which team is at home.
C11_PairHistory ==
    IndexBuilt =>
        /\ DOMAIN pair_map = {SourceMatches[i].key : i \in 1..Len(SourceMatches)}
        /\ \A key \in DOMAIN pair_map :
              /\ \A i, j \in 1..Len(pair_map[key]) :
                    i < j => pair_map[key][i].date <= pair_map[key][j].date
              /\ pair_map[key] = ExpectedHistory(key)
        /\ TotalLen(pair_map, DOMAIN pair_map) = Len(SourceMatches)
        /\ \A i \in 1..Len(raw) :
              build_pair_key(raw[i].homeTeam, raw[i].awayTeam)
                  = build_pair_key(raw[i].awayTeam, raw[i].homeTeam)

\* a history with two different matches of one date, the table holding the
\* later match first
C11_Witness ==
    /\ pc = "merge"
    /\ \E key \in DOMAIN pair_map :
          /\ Len(pair_map[key]) = 2
          /\ pair_map[key][1].date = pair_map[key][2].date
          /\ pair_map[key][1].home_team # pair_map[key][2].home_team

(***************************************************************************)
(* Rows of a league the alias table does not know.                         *)
(***************************************************************************)
KnownLeague(row) == Lower(Strip(row.Division)) \in DOMAIN LEAGUE_NAME_MAP

\* the rows read from the raw file whose league label is a key of the table
ResolvedRead == SelectSeq(raw_read, KnownLeague)

\* such a row holds both full-time goals
HasFullTime(row) == ToNumeric(row.results.FTHome) # None /\ ToNumeric(row.results.FTAway) # None

\* the match such a row stands for
MatchOfRead(row) ==
    H2HMatch(row.MatchDate, CanonicalTeam(row.HomeTeam), CanonicalTeam(row.AwayTeam),
             ToNumeric(row.results.FTHome), ToNumeric(row.results.FTAway))

ResolvedMatches == {MatchOfRead(ResolvedRead[j]) : j \in {j \in 1..Len(ResolvedRead) : HasFullTime(ResolvedRead[j])}}

\* C12: a raw row whose league label, trimmed and lowercased, is not a key of
\* LEAGUE_NAME_MAP is dropped by the filter; every match of a pair history
\* and of a snapshot, and every outcome merged onto a feature row, comes from
\* a row of a known league.
C12_UnresolvedExcluded ==
    /\ pc # "start" => Len(raw) = Len(ResolvedRead)
    /\ IndexBuilt =>
          /\ TotalLen(pair_map, DOMAIN pair_map)
                = Cardinality({j \in 1..Len(ResolvedRead) : HasFullTime(ResolvedRead[j])})
          /\ \A key \in DOMAIN pair_map : \A i \in 1..Len(pair_map[key]) :
                pair_map[key][i] \in ResolvedMatches
    /\ \A i \in 1..Len(merged) :
          (\E c \in OUTCOME_COLUMNS : merged[i].outcome[c] # None) =>
              \E j \in 1..Len(ResolvedRead) :
                  /\ DateOf(ResolvedRead[j].MatchDate) = merged[i].date
                  /\ CanonicalTeam(ResolvedRead[j].HomeTeam) = merged[i].homeTeam
                  /\ CanonicalTeam(ResolvedRead[j].AwayTeam) = merged[i].awayTeam
    /\ \A i \in 1..Len(selected_overall) :
          /\ \A k \in 1..Len(selected_overall[i]) : selected_overall[i][k] \in ResolvedMatches
          /\ \A k \in 1..Len(selected_venue[i]) : selected_venue[i][k] \in ResolvedMatches
          /\ h2h_overall[i].matches <= Cardinality({j \in 1..Len(ResolvedRead) : HasFullTime(ResolvedRead[j])})

\* a completed run over a raw table that holds only a played match of an
\* unknown league, and a later fixture of the same two teams
C12_Witness ==
    /\ pc = "done"
    /\ raw_read # <<>>
    /\ ResolvedRead = <<>>
    /\ \E j \in 1..Len(raw_read) : \E i \in 1..Len(merged) :
          /\ HasFullTime(raw_read[j])
          /\ raw_read[j].MatchDate < ToDatetime(merged[i].date)
          /\ h2h_overall[i].matches = 0
          /\ h2h_venue[i].matches = 0

\* the number of rows the league filter dropped
ExcludedRows == Len(raw_read) - Len(ResolvedRead)

\* C13: a completed run has printed the number of raw rows excluded because
\* their league label was not resolved.
C13_ExcludedCountReported ==
    pc = "done" =>
        \E i \in 1..Len(printed) :
            \E c \in DOMAIN printed[i].values \ COVERAGE_COLUMNS :
                printed[i].values[c] = ExcludedRows

(***************************************************************************)
(* The derived targets.                                                    *)
(***************************************************************************)
IsNull(column, value) == IF column = "fh_result" THEN value = NoLabel ELSE value = None

\* the targets computed from a field of the outcome
DEPENDENTS ==
    [c \in OUTCOME_COLUMNS |->
        CASE c \in {"HTHome", "HTAway"} -> {"fh_result", "fh_goals_total", "sh_goals_total"}
          [] c \in {"HomeYellow", "HomeRed"} -> {"home_cards", "total_cards"}
          [] c \in {"AwayYellow", "AwayRed"} -> {"away_cards", "total_cards"}
          [] c = "HomeCorners" -> {"home_corners", "total_corners"}
          [] c = "AwayCorners" -> {"away_corners", "total_corners"}]

\* the row with a value in a field of its outcome
Filled(row, c, v) == [row EXCEPT !.outcome[c] = v]

\* C14: when a half-time, card or corner field of a merged row is missing,
\* the targets computed from that field are null, the row still has all its
\* target columns, and every other target has the value it has when the
\* field is present, whatever that value is.
C14_NullIndependence ==
    derive_pc = "done" =>
        \A c \in OUTCOME_COLUMNS :
            merged_row.outcome[c] = None =>
                /\ \A t \in DEPENDENTS[c] : IsNull(t, row_targets[t])
                /\ \A v \in 0..1 :
                      LET with == DeriveTargets(Filled(merged_row, c, v))
                      IN  /\ DOMAIN with = DOMAIN row_targets
                          /\ \A t \in DOMAIN row_targets \ DEPENDENTS[c] :
                                with[t] = row_targets[t]

\* a row with everything but the home half-time goals: the half-time targets
\* are null, the cards and corners targets are not
C14_Witness ==
    /\ derive_pc = "done"
    /\ merged_row.outcome.HTHome = None
    /\ \A c \in OUTCOME_COLUMNS \ {"HTHome"} : merged_row.outcome[c] # None
    /\ merged_row.homeGoals # None /\ merged_row.awayGoals # None
    /\ row_targets["fh_goals_total"] = None
    /\ row_targets["sh_goals_total"] = None
    /\ row_targets["fh_result"] = NoLabel
    /\ row_targets["total_cards"] = 4
    /\ row_targets["total_corners"] = 6
    /\ row_targets["btts_yes"] = 1

\* no row of the right-hand table of the merge has the key of the merged row
Unmatched(row) ==
    \A j \in 1..Len(raw) : MergeKey(Outcome(raw[j])) # MergeKey(row)

\* C15: a feature row that matches no raw outcome row is kept, and all its
\* outcome fields and all its derived-target columns are null.
C15_UnmatchedAllNull ==
    pc \in {"h2h", "report", "done"} =>
        /\ Len(merged) = Len(features)
        /\ Len(targets) = Len(merged)
        /\ \A i \in 1..Len(targets) :
              Unmatched(merged[i]) =>
                  /\ \A c \in OUTCOME_COLUMNS : merged[i].outcome[c] = None
                  /\ \A t \in DOMAIN targets[i] \ {"totalGoals"} :
                        IsNull(t, targets[i][t])

\* the goals of both teams of the row, when both counts are present
BothGoals == merged_row.homeGoals # None /\ merged_row.awayGoals # None
RowTotal == merged_row.homeGoals + merged_row.awayGoals

\* C16: ou_over_L is 1 exactly when homeGoals + awayGoals is greater than L,
\* for each of the six lines (each line is given as twice its value), so a
\* label of 1 at a line comes with a label of 1 at every lower line.
C16_OverUnder ==
    derive_pc = "done" =>
        /\ \A i \in 1..Len(OU_LINES) :
              /\ row_targets[OUColumn(OU_LINES[i])] \in {0, 1}
              /\ row_targets[OUColumn(OU_LINES[i])] = 1
                    <=> (BothGoals /\ 2 * RowTotal > OU_LINES[i])
        /\ \A i, j \in 1..Len(OU_LINES) :
              OU_LINES[i] < OU_LINES[j] /\ row_targets[OUColumn(OU_LINES[j])] = 1
                  => row_targets[OUColumn(OU_LINES[i])] = 1

\* three goals: over 0.5, 1.5 and 2.5, not over 3.5, 4.5 and 5.5
C16_Witness ==
    /\ derive_pc = "done"
    /\ BothGoals
    /\ RowTotal = 3
    /\ row_targets["ou_over_0_5"] = 1
    /\ row_targets["ou_over_1_5"] = 1
    /\ row_targets["ou_over_2_5"] = 1
    /\ row_targets["ou_over_3_5"] = 0
    /\ row_targets["ou_over_4_5"] = 0
    /\ row_targets["ou_over_5_5"] = 0

\* C17: the derived targets of a row with both final goal counts hold a
\* result label: HOME when the home team scored more, AWAY when it scored
\* less, DRAW otherwise.
C17_ResultLabel ==
    derive_pc = "done" /\ BothGoals =>
        /\ "result" \in DOMAIN row_targets
        /\ row_targets["result"] =
              (IF merged_row.homeGoals > merged_row.awayGoals THEN "HOME"
               ELSE IF merged_row.homeGoals < merged_row.awayGoals THEN "AWAY"
               ELSE "DRAW")

(***************************************************************************)
(* The feature columns of the model stages.                                *)
(***************************************************************************)
\* the raw outcome columns, the derived targets and the targets of the markets
OUTCOME_AND_LABEL_COLUMNS ==
    {"homeGoals", "awayGoals"} \cup OUTCOME_COLUMNS \cup TARGET_COLUMNS
    \cup train_target_columns \cup eval_target_columns

\* C18: the feature columns of the training stage and those of the
\* evaluation stage hold no raw outcome column, no derived target and no
\* market target, and for one table the two stages take the same columns.
C18_NoLabelLeakage ==
    feat_pc = "evaluated" =>
        /\ train_X \cap OUTCOME_AND_LABEL_COLUMNS = {}
        /\ eval_X \cap OUTCOME_AND_LABEL_COLUMNS = {}
        /\ train_X # {} /\ eval_X # {} => train_X = eval_X

(***************************************************************************)
(* The outcome row of a fixture and the fixture's own snapshots.           *)
(***************************************************************************)
SnapshotsTaken == pc \in {"h2h", "report", "done"}

\* the raw row j is the outcome row merged onto the merged row i
MergedOnto(j, i) == MergeKey(Outcome(raw[j])) = MergeKey(merged[i])

MatchOfRow(row) ==
    H2HMatch(row.date, row.homeTeam, row.awayTeam, row.results.FTHome, row.results.FTAway)

InHistory(row) ==
    /\ PairKeyOf(row) \in DOMAIN pair_map
    /\ \E k \in 1..Len(pair_map[PairKeyOf(row)]) :
          pair_map[PairKeyOf(row)][k] = MatchOfRow(row)

\* the fixture's date is not later than the timestamp of its outcome row, and
\* no match behind its snapshots is that row's match
NotInOwnSnapshots(j, i) ==
    /\ ToDatetime(merged[i].date) <= raw[j].date
    /\ \A k \in 1..Len(selected_overall[i]) :
          /\ selected_overall[i][k] # MatchOfRow(raw[j])
          /\ selected_overall[i][k].date < raw[j].date
    /\ \A k \in 1..Len(selected_venue[i]) :
          /\ selected_venue[i][k] # MatchOfRow(raw[j])
          /\ selected_venue[i][k].date < raw[j].date

\* C19 as stated: the outcome row merged onto a feature row is in the pair
\* history and is not behind that row's own overall or venue snapshot.
C19_AsStated ==
    SnapshotsTaken =>
        \A i \in 1..Len(h2h_overall) : \A j \in 1..Len(raw) :
            MergedOnto(j, i) => InHistory(raw[j]) /\ NotInOwnSnapshots(j, i)

\* C19, amended: the outcome row merged onto a feature row is not behind
\* that row's own overall or venue snapshot, the fixture date being midnight
\* of the day of the row's timestamp; the row is in the pair history when it
\* holds both full-time goals.
C19_SelfExclusion ==
    SnapshotsTaken =>
        \A i \in 1..Len(h2h_overall) : \A j \in 1..Len(raw) :
            MergedOnto(j, i) =>
                /\ H2HSourceRow(raw[j]) => InHistory(raw[j])
                /\ ~H2HSourceRow(raw[j]) => ~InHistory(raw[j])
                /\ NotInOwnSnapshots(j, i)

\* a fixture with its own played match in the history, stamped at midnight,
\* and an earlier match behind its snapshot
C19_Witness ==
    /\ pc = "done"
    /\ \E i \in 1..Len(h2h_overall) : \E j \in 1..Len(raw) :
          /\ MergedOnto(j, i)
          /\ InHistory(raw[j])
          /\ raw[j].date = ToDatetime(merged[i].date)
          /\ h2h_overall[i].matches = 1
          /\ Len(pair_map[PairKeyOf(raw[j])]) = 2

(***************************************************************************)
(* The pair key.                                                           *)
(***************************************************************************)
\* C20: rows of two different unordered pairs of teams have different pair
\* keys, and every match of the history found for a fixture was played
\* between the two teams of the fixture.
C20_KeyInjective ==
    key_pc = "found" =>
        /\ \A i, j \in 1..Len(h2h_source) :
              PairKeyOf(h2h_source[i]) = PairKeyOf(h2h_source[j]) =>
                  {h2h_source[i].homeTeam, h2h_source[i].awayTeam}
                      = {h2h_source[j].homeTeam, h2h_source[j].awayTeam}
        /\ \A k \in 1..Len(key_matches) :
              {key_matches[k].home_team, key_matches[k].away_team} = {fixture[1], fixture[2]}

====
